---- MODULE Spec2Model ----
(***************************************************************************)
(* Model of theme/syntax-highlight.py, the cgit syntax highlighting        *)
(* filter: one process that reads stdin, selects a Pygments lexer from the *)
(* filename hint and the content, renders CSS-class-only HTML and writes   *)
(* it to stdout.                                                           *)
(*                                                                         *)
(* Text is a sequence of Unicode code points (integers), bytes are         *)
(* integers 0..255.  The Pygments calls are modelled at the script's call  *)
(* sites: the two lexer guesses by their possible outcomes (a lexer, the   *)
(* ClassNotFound exception, the TypeError exception), highlight() by the   *)
(* input normalisation of a lexer built with default options and by the    *)
(* HtmlFormatter output for the options the script passes.                 *)
(***************************************************************************)
EXTENDS Integers, Sequences, FiniteSets, TLC

VARIABLES pc, stdinBytes, argv, data, filename, formatter, lexer,
          calls, shebangTested, rendered, stdout, exitStatus, raised

vars == <<pc, stdinBytes, argv, data, filename, formatter, lexer,
          calls, shebangTested, rendered, stdout, exitStatus, raised>>

(***************************************************************************)
(* Bounds of the model.                                                    *)
(***************************************************************************)
\* longest enumerated stdin byte sequence
MaxLen == 3
\* largest number of command-line arguments after the script name
MaxArgs == 2

(***************************************************************************)
(* Code points and strings used below.                                     *)
(***************************************************************************)
LF == 10
CR == 13
REPLACEMENT == 65533
BOM == 65279

\* "#!"
SHEBANG == <<35, 33>>
\* "<style"
STYLE_TAG == <<60, 115, 116, 121, 108, 101>>
\* 'style="'
STYLE_ATTR == <<115, 116, 121, 108, 101, 61, 34>>
\* "syntax-highlight.py", sys.argv[0]
SCRIPT == <<115, 121, 110, 116, 97, 120, 45, 104, 105, 103, 104, 108, 105, 103, 104, 116, 46, 112, 121>>
\* "a.py"
A_PY == <<97, 46, 112, 121>>
\* "highlight"
HIGHLIGHT == <<104, 105, 103, 104, 108, 105, 103, 104, 116>>

\* the concatenation of a sequence of sequences, by halves
RECURSIVE Flatten(_)
Flatten(ss) ==
    IF ss = <<>> THEN <<>>
    ELSE IF Len(ss) = 1 THEN ss[1]
    ELSE LET m == Len(ss) \div 2
         IN  Flatten(SubSeq(ss, 1, m)) \o Flatten(SubSeq(ss, m + 1, Len(ss)))

Contains(s, pat) ==
    \E i \in 1..(Len(s) - Len(pat) + 1) : SubSeq(s, i, i + Len(pat) - 1) = pat

StartsWith(s, pat) == Len(s) >= Len(pat) /\ SubSeq(s, 1, Len(pat)) = pat

EndsWith(s, pat) ==
    Len(s) >= Len(pat) /\ SubSeq(s, Len(s) - Len(pat) + 1, Len(s)) = pat

Count(s, c) == Cardinality({i \in 1..Len(s) : s[i] = c})

\* Python slice s[:n]
Prefix(s, n) == SubSeq(s, 1, IF Len(s) < n THEN Len(s) ELSE n)

RECURSIVE SeqsUpTo(_, _)
SeqsUpTo(S, n) ==
    IF n = 0 THEN {<<>>}
    ELSE LET shorter == SeqsUpTo(S, n - 1)
         IN  shorter \cup {Append(s, x) : s \in {t \in shorter : Len(t) = n - 1}, x \in S}

(***************************************************************************)
(* The UTF-8 codec of the two io.TextIOWrapper streams                     *)
(* (encoding="utf-8", errors="replace", newline left at its default).      *)
(***************************************************************************)
IsCont(b, i) == i <= Len(b) /\ b[i] >= 128 /\ b[i] <= 191

InRange(b, i, lo, hi) == i <= Len(b) /\ b[i] >= lo /\ b[i] <= hi

\* lowest and highest second byte a lead byte accepts
SecondLo(b0) == IF b0 = 224 THEN 160 ELSE IF b0 = 240 THEN 144 ELSE 128
SecondHi(b0) == IF b0 = 237 THEN 159 ELSE IF b0 = 244 THEN 143 ELSE 191

\* One step of the decoder at position i: the code point produced and the
\* number of bytes consumed.  An ill-formed sequence yields U+FFFD for its
\* maximal well-formed prefix (errors="replace").
DecodeOne(b, i) ==
    LET b0 == b[i]
        bad(n) == [cp |-> REPLACEMENT, n |-> n]
    IN  IF b0 < 128 THEN [cp |-> b0, n |-> 1]
        ELSE IF b0 >= 194 /\ b0 <= 223 THEN
            IF IsCont(b, i + 1)
            THEN [cp |-> (b0 - 192) * 64 + (b[i + 1] - 128), n |-> 2]
            ELSE bad(1)
        ELSE IF b0 >= 224 /\ b0 <= 239 THEN
            IF ~InRange(b, i + 1, SecondLo(b0), SecondHi(b0)) THEN bad(1)
            ELSE IF ~IsCont(b, i + 2) THEN bad(2)
            ELSE [cp |-> (b0 - 224) * 4096 + (b[i + 1] - 128) * 64 + (b[i + 2] - 128),
                  n |-> 3]
        ELSE IF b0 >= 240 /\ b0 <= 244 THEN
            IF ~InRange(b, i + 1, SecondLo(b0), SecondHi(b0)) THEN bad(1)
            ELSE IF ~IsCont(b, i + 2) THEN bad(2)
            ELSE IF ~IsCont(b, i + 3) THEN bad(3)
            ELSE [cp |-> (b0 - 240) * 262144 + (b[i + 1] - 128) * 4096
                         + (b[i + 2] - 128) * 64 + (b[i + 3] - 128),
                  n |-> 4]
        ELSE bad(1)

RECURSIVE DecodeFrom(_, _)
DecodeFrom(b, i) ==
    IF i > Len(b) THEN <<>>
    ELSE LET r == DecodeOne(b, i) IN <<r.cp>> \o DecodeFrom(b, i + r.n)

Utf8Decode(b) == DecodeFrom(b, 1)

\* Universal newlines on input (newline=None): "\r\n" and "\r" become "\n".
RECURSIVE TranslateNewlines(_)
TranslateNewlines(s) ==
    IF s = <<>> THEN <<>>
    ELSE IF Head(s) = CR THEN
        IF Len(s) >= 2 /\ s[2] = LF
        THEN <<LF>> \o TranslateNewlines(Tail(Tail(s)))
        ELSE <<LF>> \o TranslateNewlines(Tail(s))
    ELSE <<Head(s)>> \o TranslateNewlines(Tail(s))

\* sys.stdin.read() on the reconfigured stream
StdinRead(b) == TranslateNewlines(Utf8Decode(b))

IsSurrogate(c) == c >= 55296 /\ c <= 57343

EncodeOne(c) ==
    IF c < 128 THEN <<c>>
    ELSE IF c < 2048 THEN <<192 + (c \div 64), 128 + (c % 64)>>
    ELSE IF IsSurrogate(c) THEN <<63>>
    ELSE IF c < 65536 THEN
        <<224 + (c \div 4096), 128 + ((c \div 64) % 64), 128 + (c % 64)>>
    ELSE <<240 + (c \div 262144), 128 + ((c \div 4096) % 64),
           128 + ((c \div 64) % 64), 128 + (c % 64)>>

\* The encoder of the reconfigured sys.stdout (an unencodable surrogate
\* becomes "?", errors="replace").
Utf8Encode(s) == Flatten([k \in 1..Len(s) |-> EncodeOne(s[k])])

(***************************************************************************)
(* Lexers.  A lexer object is its class and the options it was built       *)
(* with; the script passes none, so every lexer carries the defaults       *)
(* stripnl=True, ensurenl=True.                                            *)
(***************************************************************************)
LexerClasses == {"TextLexer", "PythonLexer", "BashLexer"}

NewLexer(cls) == [cls |-> cls, stripnl |-> TRUE, ensurenl |-> TRUE]

TextLexer == NewLexer("TextLexer")

RECURSIVE StripLeft(_, _)
StripLeft(s, c) == IF s # <<>> /\ Head(s) = c THEN StripLeft(Tail(s), c) ELSE s

RECURSIVE StripRight(_, _)
StripRight(s, c) ==
    IF s # <<>> /\ s[Len(s)] = c THEN StripRight(SubSeq(s, 1, Len(s) - 1), c) ELSE s

\* str.strip(c)
Strip(s, c) == StripRight(StripLeft(s, c), c)

\* What Lexer.get_tokens does to its input before tokenizing: drop a
\* leading byte-order mark, normalise line endings, strip leading and
\* trailing newlines (stripnl), make the text end in a newline (ensurenl).
Preprocess(text, lx) ==
    LET t1 == IF text # <<>> /\ Head(text) = BOM THEN Tail(text) ELSE text
        t2 == TranslateNewlines(t1)
        t3 == IF lx.stripnl THEN Strip(t2, LF) ELSE t2
    IN  IF lx.ensurenl /\ ~EndsWith(t3, <<LF>>) THEN Append(t3, LF) ELSE t3

IsLetter(c) == (c >= 97 /\ c <= 122) \/ (c >= 65 /\ c <= 90)

\* The CSS class of the token a character falls in; <<>> is Token.Text,
\* which gets no class.  The text lexer yields the whole text as one
\* Token.Text; the other two stand for language lexers that classify.
TokenClass(cls, c) ==
    IF cls = "TextLexer" \/ c = LF \/ c = 32 THEN <<>>
    ELSE IF cls = "PythonLexer" THEN
        (IF c = 35 THEN <<99, 49>>                \* "c1"
         ELSE IF IsLetter(c) THEN <<110>>         \* "n"
         ELSE <<111>>)                            \* "o"
    ELSE
        (IF c = 35 THEN <<99, 49>>                \* "c1"
         ELSE IF IsLetter(c) THEN <<110, 98>>     \* "nb"
         ELSE <<>>)

(***************************************************************************)
(* HtmlFormatter.                                                          *)
(***************************************************************************)
\* Variant: the formatter is asked for inline styles (noclasses=True).
HtmlFormatterInlineStyles ==
    [nowrap |-> FALSE, nobackground |-> TRUE, classprefix |-> <<>>,
     cssclass |-> HIGHLIGHT, style |-> "default",
     noclasses |-> TRUE, filename |-> <<>>]

\* Variant: the filename hint is handed to the formatter (filename=filename).
HtmlFormatterWithFilename ==
    [nowrap |-> FALSE, nobackground |-> TRUE, classprefix |-> <<>>,
     cssclass |-> HIGHLIGHT, style |-> "default",
     noclasses |-> FALSE, filename |-> filename]

\* The options object built by HtmlFormatter(nowrap=False, nobackground=True,
\* classprefix="", cssclass="highlight", style="default"); noclasses and
\* filename are not passed and keep their defaults.
HtmlFormatterOptions ==
    [nowrap |-> FALSE, nobackground |-> TRUE, classprefix |-> <<>>,
     cssclass |-> HIGHLIGHT, style |-> "default",
     noclasses |-> FALSE, filename |-> <<>>]

\* html escaping of one character of token text
EscapeHtml(c) ==
    IF c = 38 THEN <<38, 97, 109, 112, 59>>               \* &amp;
    ELSE IF c = 60 THEN <<38, 108, 116, 59>>              \* &lt;
    ELSE IF c = 62 THEN <<38, 103, 116, 59>>              \* &gt;
    ELSE IF c = 34 THEN <<38, 113, 117, 111, 116, 59>>    \* &quot;
    ELSE IF c = 39 THEN <<38, 35, 51, 57, 59>>            \* &#39;
    ELSE <<c>>

\* <span class="PREFIXcls">, or <span style="..."> when noclasses is set
SpanOpen(fmt, cls) ==
    IF fmt.noclasses
    THEN <<60, 115, 112, 97, 110, 32, 115, 116, 121, 108, 101, 61, 34>>
         \o <<99, 111, 108, 111, 114, 58, 32, 35, 48, 48, 56, 48, 48, 48>> \o <<34, 62>>
    ELSE <<60, 115, 112, 97, 110, 32, 99, 108, 97, 115, 115, 61, 34>>
         \o fmt.classprefix \o cls \o <<34, 62>>

\* </span>
SpanClose == <<60, 47, 115, 112, 97, 110, 62>>

\* The formatted lines: every run of characters of one class on one line
\* is wrapped in one span, classless text is emitted escaped, the line
\* separator stays outside the spans.  open is the class of the span
\* that is open at position i.
RECURSIVE FormatLines(_, _, _, _, _)
FormatLines(t, i, open, cls, fmt) ==
    LET close == IF open = <<>> THEN <<>> ELSE SpanClose
    IN  IF i > Len(t) THEN close
        ELSE IF t[i] = LF THEN close \o <<LF>> \o FormatLines(t, i + 1, <<>>, cls, fmt)
        ELSE LET c == TokenClass(cls, t[i])
             IN  IF c = open
                 THEN EscapeHtml(t[i]) \o FormatLines(t, i + 1, open, cls, fmt)
                 ELSE close \o (IF c = <<>> THEN <<>> ELSE SpanOpen(fmt, c))
                      \o EscapeHtml(t[i]) \o FormatLines(t, i + 1, c, cls, fmt)

\* <pre>, the filename span when a filename option is set, <span></span>,
\* the lines, </pre>
WrapPre(fmt, inner) ==
    (IF fmt.noclasses
     THEN <<60, 112, 114, 101, 32, 115, 116, 121, 108, 101, 61, 34>>
          \o <<108, 105, 110, 101, 45, 104, 101, 105, 103, 104, 116, 58, 32, 49, 50, 53, 37, 59>>
          \o <<34, 62>>
     ELSE <<60, 112, 114, 101, 62>>)
    \o (IF fmt.filename = <<>> THEN <<>>
        ELSE <<60, 115, 112, 97, 110, 32, 99, 108, 97, 115, 115, 61, 34,
               102, 105, 108, 101, 110, 97, 109, 101, 34, 62>>
             \o Flatten([k \in 1..Len(fmt.filename) |-> EscapeHtml(fmt.filename[k])])
             \o SpanClose)
    \o <<60, 115, 112, 97, 110, 62>> \o SpanClose
    \o inner
    \o <<60, 47, 112, 114, 101, 62>>

\* <div class="CSSCLASS"> ... </div> and a newline
WrapDiv(fmt, inner) ==
    <<60, 100, 105, 118>>
    \o (IF fmt.cssclass = <<>> THEN <<>>
        ELSE <<32, 99, 108, 97, 115, 115, 61, 34>> \o fmt.cssclass \o <<34>>)
    \o <<62>> \o inner \o <<60, 47, 100, 105, 118, 62, 10>>

\* pygments.highlight(code, lexer, formatter) with an HtmlFormatter
highlight(code, lx, fmt) ==
    LET lines == FormatLines(Preprocess(code, lx), 1, <<>>, lx.cls, fmt)
    IN  IF fmt.nowrap THEN lines ELSE WrapDiv(fmt, WrapPre(fmt, lines))

(***************************************************************************)
(* The inputs of one run.                                                  *)
(***************************************************************************)
\* "#", "!", "\n", "\r", "a", and the two bytes of U+00E9: 0xC3 is a lead
\* byte, 0xA9 a continuation byte, each ill-formed on its own
ByteAlphabet == {35, 33, 10, 13, 97, 195, 169}

SampleInputs ==
    { <<239, 187, 191, 35, 33>>,                       \* BOM "#!"
      <<239, 191, 189, 35, 33>>,                       \* U+FFFD "#!"
      <<32, 35, 33, 97>>,                              \* " #!a"
      <<35, 33, 255, 10>>,                             \* "#!" 0xFF "\n"
      <<60, 115, 116, 121, 108, 101, 62, 97>>,         \* "<style>a"
      <<115, 116, 121, 108, 101, 61, 34, 97, 34>>,     \* 'style="a"'
      <<10, 10, 97, 10, 97>>,                          \* "\n\na\na"
      <<240, 159, 152, 128>>,                          \* U+1F600
      <<237, 160, 128>> }                              \* an encoded surrogate

Stdins == SeqsUpTo(ByteAlphabet, MaxLen) \cup SampleInputs

\* filename hints: "" and "a.py"
Hints == {<<>>, A_PY}

\* sys.argv: the script name, then up to MaxArgs arguments
Argvs == {<<SCRIPT>> \o a : a \in SeqsUpTo(Hints, MaxArgs)}

\* What a Pygments lexer guess can do: return a lexer, raise ClassNotFound
\* ("no matching lexer"), raise TypeError.
Exceptions == {"ClassNotFound", "TypeError"}
GuessOutcomes == LexerClasses \cup Exceptions

\* an unbound Python name
Unbound == [cls |-> "unbound"]

Init ==
    /\ pc = "read"
    /\ stdinBytes \in Stdins
    /\ argv \in Argvs
    /\ data = <<>>
    /\ filename = <<>>
    /\ formatter = Unbound
    /\ lexer = Unbound
    /\ calls = <<>>
    /\ shebangTested = FALSE
    /\ rendered = <<>>
    /\ stdout = <<>>
    /\ exitStatus = -1
    /\ raised = "none"

\* an uncaught exception: traceback, exit status 1
Abort(exc) ==
    /\ raised' = exc
    /\ exitStatus' = 1
    /\ pc' = "exited"

\* line 17, data = sys.stdin.read()
ReadStdin ==
    /\ pc = "read"
    /\ data' = StdinRead(stdinBytes)
    /\ pc' = "argv"
    /\ UNCHANGED <<stdinBytes, argv, filename, formatter, lexer, calls,
                   shebangTested, rendered, stdout, exitStatus, raised>>

\* line 17 when the read itself fails
ReadStdinFails ==
    /\ pc = "read"
    /\ Abort("OSError")
    /\ UNCHANGED <<stdinBytes, argv, data, filename, formatter, lexer, calls,
                   shebangTested, rendered, stdout>>

\* Variant: the last argument is taken instead of the first (sys.argv[-1]).
FilenameOfLast(av) == IF Len(av) > 1 THEN av[Len(av)] ELSE <<>>

\* sys.argv[1] if len(sys.argv) > 1 else ""
FilenameOf(av) == IF Len(av) > 1 THEN av[2] ELSE <<>>

\* line 18
SetFilename ==
    /\ pc = "argv"
    /\ filename' = FilenameOf(argv)
    /\ pc' = "formatter"
    /\ UNCHANGED <<stdinBytes, argv, data, formatter, lexer, calls,
                   shebangTested, rendered, stdout, exitStatus, raised>>

\* lines 23-29
MakeFormatter ==
    /\ pc = "formatter"
    /\ formatter' = HtmlFormatterOptions
    /\ pc' = "try"
    /\ UNCHANGED <<stdinBytes, argv, data, filename, lexer, calls,
                   shebangTested, rendered, stdout, exitStatus, raised>>

\* Variant: one handler for both exceptions (except (ClassNotFound, TypeError)).
AfterFilenameGuessOneHandler(outcome) ==
    IF outcome \in LexerClasses THEN "highlight" ELSE "except ClassNotFound"

\* where control goes after guess_lexer_for_filename
AfterFilenameGuess(outcome) ==
    IF outcome \in LexerClasses THEN "highlight"
    ELSE IF outcome = "ClassNotFound" THEN "except ClassNotFound"
    ELSE "except TypeError"

\* line 32, lexer = guess_lexer_for_filename(filename, data)
GuessLexerForFilename ==
    /\ pc = "try"
    /\ \E outcome \in GuessOutcomes :
        /\ calls' = Append(calls, [fn |-> "guess_lexer_for_filename",
                                   args |-> <<filename, data>>,
                                   result |-> outcome])
        /\ lexer' = IF outcome \in LexerClasses THEN NewLexer(outcome) ELSE lexer
        /\ pc' = AfterFilenameGuess(outcome)
    /\ UNCHANGED <<stdinBytes, argv, data, filename, formatter,
                   shebangTested, rendered, stdout, exitStatus, raised>>

\* Variant: the shebang is looked for anywhere in the content ("#!" in data).
HasShebangAnywhere(d) == Contains(d, SHEBANG)

\* data[:2] == "#!"
HasShebang(d) == Prefix(d, 2) = SHEBANG

\* lines 33-34 and 36-37: the ClassNotFound handler tests the shebang and
\* either goes on to the content-only guess or takes the text lexer
ExceptClassNotFound ==
    /\ pc = "except ClassNotFound"
    /\ shebangTested' = TRUE
    /\ IF HasShebang(data)
       THEN pc' = "guess_lexer" /\ lexer' = lexer
       ELSE pc' = "highlight" /\ lexer' = TextLexer
    /\ UNCHANGED <<stdinBytes, argv, data, filename, formatter, calls,
                   rendered, stdout, exitStatus, raised>>

\* Variant: the content-only guess is made but its result is dropped for
\* the text lexer.
GuessLexerDropsResult ==
    /\ pc = "guess_lexer"
    /\ \E outcome \in GuessOutcomes :
        /\ calls' = Append(calls, [fn |-> "guess_lexer", args |-> <<data>>,
                                   result |-> outcome])
        /\ IF outcome \in LexerClasses
           THEN /\ lexer' = TextLexer
                /\ pc' = "highlight"
                /\ UNCHANGED <<exitStatus, raised>>
           ELSE /\ Abort(outcome)
                /\ lexer' = lexer
    /\ UNCHANGED <<stdinBytes, argv, data, filename, formatter,
                   shebangTested, rendered, stdout>>

\* line 35, lexer = guess_lexer(data); the call sits inside an except
\* clause, so an exception it raises is caught by no handler
GuessLexer ==
    /\ pc = "guess_lexer"
    /\ \E outcome \in GuessOutcomes :
        /\ calls' = Append(calls, [fn |-> "guess_lexer", args |-> <<data>>,
                                   result |-> outcome])
        /\ IF outcome \in LexerClasses
           THEN /\ lexer' = NewLexer(outcome)
                /\ pc' = "highlight"
                /\ UNCHANGED <<exitStatus, raised>>
           ELSE /\ Abort(outcome)
                /\ lexer' = lexer
    /\ UNCHANGED <<stdinBytes, argv, data, filename, formatter,
                   shebangTested, rendered, stdout>>

\* lines 38-39
ExceptTypeError ==
    /\ pc = "except TypeError"
    /\ lexer' = TextLexer
    /\ pc' = "highlight"
    /\ UNCHANGED <<stdinBytes, argv, data, filename, formatter, calls,
                   shebangTested, rendered, stdout, exitStatus, raised>>

\* line 41, the argument highlight(data, lexer, formatter)
Highlight ==
    /\ pc = "highlight"
    /\ rendered' = highlight(data, lexer, formatter)
    /\ calls' = Append(calls, [fn |-> "highlight",
                               args |-> <<data, lexer, formatter>>,
                               result |-> "str"])
    /\ pc' = "write"
    /\ UNCHANGED <<stdinBytes, argv, data, filename, formatter, lexer,
                   shebangTested, stdout, exitStatus, raised>>

\* Variant: the fragment is written line by line and the run ends after
\* the first line.
WriteFirstLine ==
    /\ pc = "write"
    /\ stdout' = Append(stdout, Utf8Encode(SubSeq(rendered, 1,
                     CHOOSE k \in 1..Len(rendered) :
                         rendered[k] = LF /\ \A j \in 1..(k - 1) : rendered[j] # LF)))
    /\ exitStatus' = 0
    /\ pc' = "exited"
    /\ UNCHANGED <<stdinBytes, argv, data, filename, formatter, lexer, calls,
                   shebangTested, rendered, raised>>

\* line 41, sys.stdout.write(...) and the normal end of the script; stdout
\* holds the encoded text of every write the stream accepted
Write ==
    /\ pc = "write"
    /\ stdout' = Append(stdout, Utf8Encode(rendered))
    /\ exitStatus' = 0
    /\ pc' = "exited"
    /\ UNCHANGED <<stdinBytes, argv, data, filename, formatter, lexer, calls,
                   shebangTested, rendered, raised>>

\* line 41 when the stream refuses the write
WriteFails ==
    /\ pc = "write"
    /\ Abort("OSError")
    /\ UNCHANGED <<stdinBytes, argv, data, filename, formatter, lexer, calls,
                   shebangTested, rendered, stdout>>

Next ==
    \/ ReadStdin
    \/ ReadStdinFails
    \/ SetFilename
    \/ MakeFormatter
    \/ GuessLexerForFilename
    \/ ExceptClassNotFound
    \/ GuessLexer
    \/ ExceptTypeError
    \/ Highlight
    \/ Write
    \/ WriteFails

Spec == Init /\ [][Next]_vars

(***************************************************************************)
(* Vocabulary of the properties.                                           *)
(***************************************************************************)
\* the read of line 17 has returned
ReadDone == pc # "read" /\ ~(pc = "exited" /\ formatter = Unbound)

\* line 18 has run
FilenameSet == ReadDone /\ pc # "argv"

\* the run ended normally
Succeeded == pc = "exited" /\ exitStatus = 0

CallsTo(fn) == {i \in 1..Len(calls) : calls[i].fn = fn}

GuessLexerCalled == CallsTo("guess_lexer") # {}

\* the outcome of guess_lexer_for_filename, once it has been called
FilenameGuessOutcome == IF calls = <<>> THEN "not called" ELSE calls[1].result

\* a lexer has been selected and control is at, or past, the rendering
LexerSelected == pc \in {"highlight", "write"} \/ (pc = "exited" /\ CallsTo("highlight") # {})

\* the first two characters of the content are "#" and "!"
BeginsWithShebang == Len(data) >= 2 /\ data[1] = 35 /\ data[2] = 33

\* the options the filter promises: wrapped, no background, no class
\* prefix, container class "highlight", classes instead of inline styles
CssClassOnlyOptions ==
    [nowrap |-> FALSE, nobackground |-> TRUE, classprefix |-> <<>>,
     cssclass |-> HIGHLIGHT, style |-> "default",
     noclasses |-> FALSE, filename |-> <<>>]

\* Well-formed UTF-8 byte sequences, by the table of the Unicode standard
IsScalarEncoding(u) ==
    LET cont(k) == u[k] >= 128 /\ u[k] <= 191
    IN  \/ Len(u) = 1 /\ u[1] <= 127
        \/ Len(u) = 2 /\ u[1] >= 194 /\ u[1] <= 223 /\ cont(2)
        \/ /\ Len(u) = 3
           /\ \/ u[1] = 224 /\ u[2] >= 160 /\ u[2] <= 191
              \/ u[1] >= 225 /\ u[1] <= 236 /\ cont(2)
              \/ u[1] = 237 /\ u[2] >= 128 /\ u[2] <= 159
              \/ u[1] >= 238 /\ u[1] <= 239 /\ cont(2)
           /\ cont(3)
        \/ /\ Len(u) = 4
           /\ \/ u[1] = 240 /\ u[2] >= 144 /\ u[2] <= 191
              \/ u[1] >= 241 /\ u[1] <= 243 /\ cont(2)
              \/ u[1] = 244 /\ u[2] >= 128 /\ u[2] <= 143
           /\ cont(3)
           /\ cont(4)

RECURSIVE WellFormedFrom(_, _)
WellFormedFrom(b, i) ==
    \/ i > Len(b)
    \/ \E n \in 1..4 :
        /\ i + n - 1 <= Len(b)
        /\ IsScalarEncoding(SubSeq(b, i, i + n - 1))
        /\ WellFormedFrom(b, i + n)

WellFormedUtf8(b) == WellFormedFrom(b, 1)

\* the text of an HTML fragment that lies outside its tags
StripTags(h) ==
    LET bracket(i) == h[i] = 60 \/ h[i] = 62
        \* position i is outside a tag: it is no bracket and the nearest
        \* bracket before it, if any, closes a tag
        outside(i) ==
            /\ ~bracket(i)
            /\ \A j \in 1..(i - 1) :
                    (bracket(j) /\ \A k \in (j + 1)..(i - 1) : ~bracket(k)) => h[j] = 62
    IN  Flatten([i \in 1..Len(h) |-> IF outside(i) THEN <<h[i]>> ELSE <<>>])

\* the visible text of the fragment's container element: the text outside
\* tags, without the line break that follows the closing </div>
VisibleText(h) ==
    StripTags(IF EndsWith(h, <<62, 10>>) THEN SubSeq(h, 1, Len(h) - 1) ELSE h)

(***************************************************************************)
(* The claims.                                                             *)
(***************************************************************************)

\* C1: whatever the lexer guesses do (a lexer, no matching lexer, a type
\* error), no failure leaves lexer selection: a finished run has selected a
\* lexer, written the fragment and exited with status 0, unless reading
\* stdin or writing stdout failed.
C1_LexerSelectionNeverFails ==
    pc = "exited" =>
        \/ exitStatus = 0 /\ lexer # Unbound /\ Len(stdout) = 1
        \/ exitStatus # 0 /\ raised = "OSError"

\* C2: guess_lexer is called if and only if guess_lexer_for_filename
\* raised ClassNotFound and the content begins with "#!"; the lexer then
\* rendered with is the one guess_lexer returned; a lexer found by
\* guess_lexer_for_filename is the one rendered with, and the shebang is
\* not looked at.
C2_ContentGuessIffNoMatchAndShebang ==
    /\ GuessLexerCalled => FilenameGuessOutcome = "ClassNotFound" /\ BeginsWithShebang
    /\ ( /\ FilenameGuessOutcome = "ClassNotFound"
         /\ BeginsWithShebang
         /\ pc \notin {"except ClassNotFound", "guess_lexer"} ) => GuessLexerCalled
    /\ \A i \in CallsTo("guess_lexer") : \A j \in CallsTo("highlight") :
            /\ calls[i].result \in LexerClasses
            /\ calls[j].args[2] = NewLexer(calls[i].result)
    /\ FilenameGuessOutcome \in LexerClasses =>
            /\ ~shebangTested
            /\ lexer = NewLexer(FilenameGuessOutcome)
            /\ \A j \in CallsTo("highlight") :
                    calls[j].args[2] = NewLexer(FilenameGuessOutcome)

C2_Witness ==
    /\ Succeeded
    /\ GuessLexerCalled
    /\ lexer.cls = "BashLexer"
    /\ stdout = <<Utf8Encode(highlight(data, NewLexer("BashLexer"), CssClassOnlyOptions))>>

\* C3: when guess_lexer_for_filename raises TypeError the text lexer is
\* taken directly, also for content that begins with "#!": the shebang is
\* not tested and guess_lexer is not called.
C3_TypeErrorSelectsTextLexer ==
    FilenameGuessOutcome = "TypeError" =>
        /\ ~shebangTested
        /\ ~GuessLexerCalled
        /\ pc # "guess_lexer"
        /\ LexerSelected => lexer = TextLexer
        /\ \A j \in CallsTo("highlight") : calls[j].args[2] = TextLexer
        /\ raised \notin Exceptions

C3_Witness ==
    /\ Succeeded
    /\ FilenameGuessOutcome = "TypeError"
    /\ BeginsWithShebang
    /\ lexer.cls = "TextLexer"

\* C4: nothing written to stdout contains "<style" or 'style="', whatever
\* the content and the selected lexer, and the formatter that renders is
\* always the one with wrapping on, background omitted, empty class prefix
\* and container class "highlight".
C4_NoStyleInOutput ==
    /\ \A k \in 1..Len(stdout) :
            /\ ~Contains(stdout[k], STYLE_TAG)
            /\ ~Contains(stdout[k], STYLE_ATTR)
    /\ ~Contains(rendered, STYLE_TAG)
    /\ ~Contains(rendered, STYLE_ATTR)
    /\ formatter # Unbound =>
            /\ formatter.nowrap = FALSE
            /\ formatter.nobackground = TRUE
            /\ formatter.classprefix = <<>>
            /\ formatter.cssclass = HIGHLIGHT
    /\ \A j \in CallsTo("highlight") : calls[j].args[3] = CssClassOnlyOptions

C4_Witness ==
    /\ Succeeded
    /\ Contains(data, STYLE_ATTR)
    /\ lexer.cls = "PythonLexer"
    /\ Len(stdout) = 1

\* C5: stdout receives nothing or, in one write, the complete fragment;
\* the write comes after the whole of stdin was read, a lexer was selected
\* and the rendering was done, so a run that failed wrote nothing.
C5_NoPartialOutput ==
    /\ Len(stdout) <= 1
    /\ stdout # <<>> =>
            /\ Succeeded
            /\ data = StdinRead(stdinBytes)
            /\ lexer # Unbound
            /\ CallsTo("highlight") # {}
            /\ stdout[1] = Utf8Encode(rendered)
            /\ StartsWith(rendered, <<60, 100, 105, 118>>)
            /\ EndsWith(rendered, <<60, 47, 112, 114, 101, 62, 60, 47, 100, 105, 118, 62, 10>>)
            /\ Count(rendered, 60) = Count(rendered, 62)
    /\ raised # "none" => stdout = <<>>
    /\ pc # "exited" => stdout = <<>>

C5_Witness ==
    /\ Succeeded
    /\ Len(stdout) = 1
    /\ Count(data, LF) >= 2

\* C6: the visible text of the rendered fragment has as many newline
\* characters as the input.
C6_NewlineCountPreserved ==
    stdout # <<>> => Count(VisibleText(rendered), LF) = Count(data, LF)

\* C7: decoding never fails and gives text; ill-formed UTF-8 gives a
\* replacement character; well-formed UTF-8 is decoded with no character
\* altered, so encoding the decoded text gives the input back; a run whose
\* stdin could be read ends with output.
C7_DecodingLossless ==
    ReadDone =>
        /\ \A k \in 1..Len(data) :
                data[k] >= 0 /\ data[k] <= 1114111 /\ ~IsSurrogate(data[k])
        /\ ~WellFormedUtf8(stdinBytes) => Count(data, REPLACEMENT) > 0
        /\ WellFormedUtf8(stdinBytes) => Utf8Encode(data) = stdinBytes
        /\ (pc = "exited" /\ raised # "OSError") => stdout # <<>>

\* C8: the filename hint is the first argument, or "" without arguments;
\* it is what guess_lexer_for_filename is given, so a run without arguments
\* and a run with the argument "" make the same call, and later arguments
\* change nothing.
C8_FilenameIsFirstArgument ==
    /\ FilenameSet =>
            /\ Len(argv) = 1 => filename = <<>>
            /\ Len(argv) >= 2 => filename = argv[2]
    /\ calls # <<>> =>
            /\ calls[1].fn = "guess_lexer_for_filename"
            /\ calls[1].args = <<(IF Len(argv) = 1 THEN <<>> ELSE argv[2]), data>>
    /\ \A i \in 2..Len(calls) : calls[i].fn # "guess_lexer_for_filename"

C8_Witness ==
    /\ Succeeded
    /\ Len(argv) = 3
    /\ argv[2] = <<>>
    /\ argv[3] = A_PY
    /\ calls[1].args[1] = <<>>

\* C9: the filename hint reaches guess_lexer_for_filename only: guess_lexer
\* gets the content alone, highlight gets the content, the lexer and the
\* fixed formatter, and the output is a function of content and lexer.
C9_HintOnlySelectsLexer ==
    /\ \A i \in CallsTo("guess_lexer") : calls[i].args = <<data>>
    /\ \A j \in CallsTo("highlight") :
            /\ calls[j].args = <<data, lexer, CssClassOnlyOptions>>
            /\ rendered = highlight(data, lexer, CssClassOnlyOptions)
    /\ formatter # Unbound => formatter.filename = <<>>
    /\ stdout # <<>> =>
            stdout = <<Utf8Encode(highlight(data, lexer, CssClassOnlyOptions))>>

C9_Witness ==
    /\ Succeeded
    /\ filename = A_PY
    /\ lexer.cls = "PythonLexer"
    /\ data # <<>>
    /\ Len(stdout) = 1

\* C10: after ClassNotFound, content whose first two characters are not
\* "#!" (empty, "#" alone, "#!" after whitespace, a byte-order mark or a
\* replacement character) gets the text lexer, and guess_lexer is not
\* called.
C10_NoShebangSelectsTextLexer ==
    ( /\ FilenameGuessOutcome = "ClassNotFound"
      /\ ~BeginsWithShebang
      /\ pc # "except ClassNotFound" ) =>
        /\ shebangTested
        /\ ~GuessLexerCalled
        /\ pc # "guess_lexer"
        /\ lexer = TextLexer
        /\ \A j \in CallsTo("highlight") : calls[j].args[2] = TextLexer

C10_Witness ==
    /\ Succeeded
    /\ FilenameGuessOutcome = "ClassNotFound"
    /\ data = <<REPLACEMENT, 35, 33>>
    /\ lexer = TextLexer

====
